---- MODULE Spec2Model ----
(***************************************************************************)
(* Model of the expense ledger of src/main.py: one SQLite table `expenses` *)
(* and the tools add_expense, list_expenses, delete_expense,               *)
(* delete_expenses, update_expense and summarize.                          *)
(*                                                                         *)
(* Text is a sequence of one-character strings, so that SQLite's binary    *)
(* text comparison, Python's str.split and int() are computed, not         *)
(* assumed.  amount (REAL) is modelled by integers.                        *)
(***************************************************************************)
EXTENDS Integers, Sequences, FiniteSets, TLC

\* Rows ever inserted (caps the AUTOINCREMENT counter).
MaxId == 2
\* Longest expense_ids list handed to delete_expenses.
MaxLen == 2

----------------------------------------------------------------------------
(* Text and its ordering *)

\* Code points of the characters the model uses (SQLite BINARY collation
\* compares TEXT bytewise).
Code ==
  [ch \in {" ", ",", "-", "0", "1", "2", "3", "4", "5", "6", "7", "8", "9",
           "F", "R", "d", "e", "n", "o", "t", "x"} |->
      CASE ch = " " -> 32 [] ch = "," -> 44 [] ch = "-" -> 45
        [] ch = "0" -> 48 [] ch = "1" -> 49 [] ch = "2" -> 50 [] ch = "3" -> 51
        [] ch = "4" -> 52 [] ch = "5" -> 53 [] ch = "6" -> 54 [] ch = "7" -> 55
        [] ch = "8" -> 56 [] ch = "9" -> 57
        [] ch = "F" -> 70 [] ch = "R" -> 82
        [] ch = "d" -> 100 [] ch = "e" -> 101 [] ch = "n" -> 110
        [] ch = "o" -> 111 [] ch = "t" -> 116 [] ch = "x" -> 120]

RECURSIVE TextLess(_, _)
\* a < b for TEXT values: first differing byte decides, a proper prefix is smaller.
TextLess(a, b) ==
  IF b = <<>> THEN FALSE
  ELSE IF a = <<>> THEN TRUE
  ELSE IF Code[a[1]] < Code[b[1]] THEN TRUE
  ELSE IF Code[a[1]] > Code[b[1]] THEN FALSE
  ELSE TextLess(Tail(a), Tail(b))

TextLeq(a, b) == a = b \/ TextLess(a, b)

\* x BETWEEN lo AND hi, with lo or hi excluded (the mutant of Between).
BetweenExclusive(x, lo, hi) == TextLess(lo, x) /\ TextLess(x, hi)

\* SQL: x BETWEEN lo AND hi  ==  x >= lo AND x <= hi.
Between(x, lo, hi) == TextLeq(lo, x) /\ TextLeq(x, hi)

----------------------------------------------------------------------------
(* Python values that reach the id parameters *)

NoneV == [t |-> "none", n |-> 0, s |-> <<>>, l |-> <<>>]
IntV(n) == [t |-> "int", n |-> n, s |-> <<>>, l |-> <<>>]
StrV(s) == [t |-> "str", n |-> 0, s |-> s, l |-> <<>>]
ListV(l) == [t |-> "list", n |-> 0, s |-> <<>>, l |-> l]

\* An optional keyword argument: None, or a value.
Null(dflt) == [null |-> TRUE, v |-> dflt]
Some(v) == [null |-> FALSE, v |-> v]

Digits == {"0", "1", "2", "3", "4", "5", "6", "7", "8", "9"}

RECURSIVE Strip(_)
\* str.strip(), as int() applies it to a string argument.
Strip(s) ==
  IF s = <<>> THEN s
  ELSE IF s[1] = " " THEN Strip(Tail(s))
  ELSE IF s[Len(s)] = " " THEN Strip(SubSeq(s, 1, Len(s) - 1))
  ELSE s

RECURSIVE ParseDigits(_)
ParseDigits(s) ==
  IF s = <<>> THEN 0
  ELSE ParseDigits(SubSeq(s, 1, Len(s) - 1)) * 10 + (Code[s[Len(s)]] - Code["0"])

\* A numeral without its leading minus sign.
Unsigned(s) == IF s # <<>> /\ s[1] = "-" THEN Tail(s) ELSE s

\* int(v) raises neither TypeError nor ValueError: v is an int, or a string
\* that is, between blanks, an optional sign and at least one digit.
CanInt(v) ==
  \/ v.t = "int"
  \/ /\ v.t = "str"
     /\ Unsigned(Strip(v.s)) # <<>>
     /\ \A i \in 1..Len(Unsigned(Strip(v.s))) : Unsigned(Strip(v.s))[i] \in Digits

\* int(v), where CanInt(v).
ToInt(v) ==
  IF v.t = "int" THEN v.n
  ELSE IF Strip(v.s)[1] = "-" THEN 0 - ParseDigits(Unsigned(Strip(v.s)))
  ELSE ParseDigits(Strip(v.s))

RECURSIVE SplitWs(_, _)
\* str.split(): the maximal runs of non-blank characters; cur is the run being read.
SplitWs(s, cur) ==
  IF s = <<>> THEN (IF cur = <<>> THEN <<>> ELSE <<cur>>)
  ELSE IF s[1] = " "
       THEN (IF cur = <<>> THEN <<>> ELSE <<cur>>) \o SplitWs(Tail(s), <<>>)
       ELSE SplitWs(Tail(s), Append(cur, s[1]))

\* expense_ids.replace(",", " ")
ReplaceCommas(s) == [i \in 1..Len(s) |-> IF s[i] = "," THEN " " ELSE s[i]]

\* raw_ids of delete_expenses: the tokens of a string, the items of a list,
\* or the scalar wrapped in a list.
RawIds(expense_ids) ==
  IF expense_ids.t = "str"
  THEN LET toks == SplitWs(ReplaceCommas(expense_ids.s), <<>>)
       IN  [i \in 1..Len(toks) |-> StrV(toks[i])]
  ELSE IF expense_ids.t = "list" THEN expense_ids.l
  ELSE <<expense_ids>>

RECURSIVE FilterSeq(_, _)
\* The items of raw, in order, with CanInt(item) = keep.
FilterSeq(raw, keep) ==
  IF raw = <<>> THEN <<>>
  ELSE (IF CanInt(raw[1]) = keep THEN <<raw[1]>> ELSE <<>>) \o FilterSeq(Tail(raw), keep)

\* The mutant of InvalidItems: no item is ever reported invalid.
InvalidItemsNone(raw) == <<>>

\* invalid: the items int() rejects, in input order.
InvalidItems(raw) == FilterSeq(raw, FALSE)

\* ids: the coerced items, in input order.
CoercedIds(raw) ==
  LET ok == FilterSeq(raw, TRUE) IN [i \in 1..Len(ok) |-> ToInt(ok[i])]

Range(f) == {f[i] : i \in DOMAIN f}

RECURSIVE SortInts(_)
\* sorted(S) of a set of integers.
SortInts(S) ==
  IF S = {} THEN <<>>
  ELSE LET m == CHOOSE x \in S : \A y \in S : x <= y
       IN  <<m>> \o SortInts(S \ {m})

----------------------------------------------------------------------------
(* The store: table expenses and its AUTOINCREMENT counter *)

Callers == {"a", "b"}

VARIABLES
  store,    \* the rows of table expenses
  seq,      \* sqlite_sequence.seq of the table: the largest rowid ever inserted
  issued,   \* the ids add_expense has returned, in order
  pre,      \* the rows of the table when the last tool call began
  last,     \* the last tool call: [op, args, res]
  calls     \* per concurrent caller, its delete_expenses call in progress

vars == <<store, seq, issued, pre, last, calls>>

D0105 == <<"0", "1", "-", "0", "5">>
D0131 == <<"0", "1", "-", "3", "1">>
D15 == <<"1", "-", "5">>
Fee == <<"F", "e", "e">>
Food == <<"F", "o", "o", "d">>
Rent == <<"R", "e", "n", "t">>
Empty == <<>>

\* Dates as callers write them; the last is not zero-padded.
Dates == {D0105, D0131, D15}
Amounts == {-1, 2}
Categories == {Fee, Food, Rent}
Subcategories == {Empty, <<"x">>}
Notes == {Empty, <<"n">>}

Ids(st) == {r.id : r \in st}

MaxOf(S) == IF S = {} THEN 0 ELSE CHOOSE x \in S : \A y \in S : y <= x

\* The mutant of NextRowid: INTEGER PRIMARY KEY without AUTOINCREMENT.
NextRowidNoAuto(st, sq) == MaxOf(Ids(st)) + 1

\* The rowid INSERT assigns under AUTOINCREMENT: one more than the largest
\* rowid the table ever held.
NextRowid(st, sq) == MaxOf(Ids(st) \cup {sq}) + 1

RECURSIVE OrderById(_)
\* ORDER BY id ASC
OrderById(S) ==
  IF S = {} THEN <<>>
  ELSE LET m == CHOOSE r \in S : \A q \in S : r.id <= q.id
       IN  <<m>> \o OrderById(S \ {m})

RECURSIVE OrderText(_)
\* ORDER BY category ASC over the group keys
OrderText(S) ==
  IF S = {} THEN <<>>
  ELSE LET m == CHOOSE x \in S : \A y \in S : TextLeq(x, y)
       IN  <<m>> \o OrderText(S \ {m})

RECURSIVE SumAmount(_)
\* SUM(amount) over a set of rows
SumAmount(S) ==
  IF S = {} THEN 0
  ELSE LET r == CHOOSE x \in S : TRUE IN r.amount + SumAmount(S \ {r})

Err(msg) == [status |-> "error", message |-> msg]

----------------------------------------------------------------------------
(* The tools *)

add_expense(st, sq, date, amount, category, subcategory, note) ==
  LET id == NextRowid(st, sq)
      row == [id |-> id, date |-> date, amount |-> amount, category |-> category,
              subcategory |-> subcategory, note |-> note]
  IN  [store |-> st \cup {row}, seq |-> id, res |-> [status |-> "ok", id |-> id]]

list_expenses(st, start_date, end_date) ==
  [store |-> st,
   res |-> OrderById({r \in st : Between(r.date, start_date, end_date)})]

\* The mutant of DeleteWhereId: the statement matches no row.
DeleteWhereIdNothing(st, id) == {}

\* The rows DELETE FROM expenses WHERE id = ? removes.
DeleteWhereId(st, id) == {r \in st : r.id = id}

delete_expense(st, expense_id) ==
  IF ~CanInt(expense_id)
  THEN [store |-> st, res |-> Err("expense_id must be an integer")]
  ELSE LET gone == DeleteWhereId(st, ToInt(expense_id))
           rowcount == Cardinality(gone)
       IN  [store |-> st \ gone,
            res |-> IF rowcount = 0
                    THEN [status |-> "not_found", deleted |-> 0]
                    ELSE [status |-> "ok", deleted |-> rowcount]]

\* SELECT id FROM expenses WHERE id IN (ids): the set `existing`.
SelectIn(st, ids) == {r.id : r \in {q \in st : q.id \in Range(ids)}}

\* The rows DELETE FROM expenses WHERE id IN (ids) removes.
DeleteIn(st, ids) == {r \in st : r.id \in Range(ids)}

\* The mutant of MissingIds: the requested ids in input order, duplicates kept.
MissingIdsUnsorted(ids, existing) ==
  LET RECURSIVE Keep(_)
      Keep(s) == IF s = <<>> THEN <<>>
                 ELSE (IF s[1] \in existing THEN <<>> ELSE <<s[1]>>) \o Keep(Tail(s))
  IN  Keep(ids)

\* missing = sorted(set(ids) - existing)
MissingIds(ids, existing) == SortInts(Range(ids) \ existing)

\* The result of the by-id branch, from the two statements' outcomes.
DeleteManyResult(ids, existing, rowcount) ==
  [status |-> IF rowcount > 0 THEN "ok" ELSE "not_found",
   deleted |-> rowcount,
   missing |-> MissingIds(ids, existing)]

delete_expenses(st, expense_ids, delete_all) ==
  IF delete_all
  THEN [store |-> {}, res |-> [status |-> "ok", deleted |-> Cardinality(st)]]
  ELSE IF expense_ids.t = "none"
  THEN [store |-> st, res |-> Err("provide expense_ids or set delete_all=true")]
  ELSE LET raw == RawIds(expense_ids)
           ids == CoercedIds(raw)
           invalid == InvalidItems(raw)
       IN  IF invalid # <<>>
           THEN [store |-> st,
                 res |-> [status |-> "error", message |-> "expense_ids must be integers",
                          invalid |-> invalid]]
           ELSE IF ids = <<>>
           THEN [store |-> st, res |-> Err("no valid expense_ids provided")]
           ELSE LET existing == SelectIn(st, ids)
                    gone == DeleteIn(st, ids)
                IN  [store |-> st \ gone,
                     res |-> DeleteManyResult(ids, existing, Cardinality(gone))]

FieldNames == {"date", "amount", "category", "subcategory", "note"}

\* The mutant of SuppliedFields: date is put in the SET list whatever it is.
SuppliedFieldsDateAlways(f) == {name \in FieldNames : ~f[name].null} \cup {"date"}

\* The columns of the SET list: the arguments that are not None.
SuppliedFields(f) == {name \in FieldNames : ~f[name].null}

\* The mutant of SetFields: a note left None is written as ''.
SetFieldsClearNote(r, f) ==
  [id |-> r.id,
   date |-> IF "date" \in SuppliedFields(f) THEN f.date.v ELSE r.date,
   amount |-> IF "amount" \in SuppliedFields(f) THEN f.amount.v ELSE r.amount,
   category |-> IF "category" \in SuppliedFields(f) THEN f.category.v ELSE r.category,
   subcategory |-> IF "subcategory" \in SuppliedFields(f) THEN f.subcategory.v ELSE r.subcategory,
   note |-> IF "note" \in SuppliedFields(f) THEN f.note.v ELSE Empty]

\* UPDATE ... SET <the supplied columns> applied to one row.
SetFields(r, f) ==
  [id |-> r.id,
   date |-> IF "date" \in SuppliedFields(f) THEN f.date.v ELSE r.date,
   amount |-> IF "amount" \in SuppliedFields(f) THEN f.amount.v ELSE r.amount,
   category |-> IF "category" \in SuppliedFields(f) THEN f.category.v ELSE r.category,
   subcategory |-> IF "subcategory" \in SuppliedFields(f) THEN f.subcategory.v ELSE r.subcategory,
   note |-> IF "note" \in SuppliedFields(f) THEN f.note.v ELSE r.note]

\* cur.rowcount of the UPDATE: SQLite counts every row the WHERE clause
\* selects, whether or not a value in it changes.
UpdateRowcount(st, id, f) == Cardinality({r \in st : r.id = id})

update_expense(st, expense_id, f) ==
  IF ~CanInt(expense_id)
  THEN [store |-> st, res |-> Err("expense_id must be an integer")]
  ELSE IF SuppliedFields(f) = {}
  THEN [store |-> st, res |-> Err("provide at least one field to update")]
  ELSE LET id == ToInt(expense_id)
           after == {IF r.id = id THEN SetFields(r, f) ELSE r : r \in st}
           rowcount == UpdateRowcount(st, id, f)
       IN  [store |-> after,
            res |-> IF rowcount = 0
                    THEN (IF \E r \in after : r.id = id
                          THEN [status |-> "no_change", updated |-> 0]
                          ELSE [status |-> "not_found", updated |-> 0])
                    ELSE [status |-> "ok", updated |-> rowcount]]

\* The mutant of Truthy: the filter is never applied.
TruthyNever(category) == FALSE

\* `if category:` is false for None and for ''.
Truthy(category) == ~category.null /\ category.v # Empty

summarize(st, start_date, end_date, category) ==
  LET rows == {r \in st : /\ Between(r.date, start_date, end_date)
                          /\ (Truthy(category) => r.category = category.v)}
      keys == OrderText({r.category : r \in rows})
  IN  [store |-> st,
       res |-> [i \in 1..Len(keys) |->
                  [category |-> keys[i],
                   total_amount |-> SumAmount({r \in rows : r.category = keys[i]})]]]

----------------------------------------------------------------------------
(* Inputs *)

\* expense_id values: ids in and just past the table's range, a numeric
\* string with blanks, a non-numeric string, None.
IdInputs ==
  {IntV(i) : i \in 1..MaxId + 1} \cup {StrV(<<" ", "1">>), StrV(<<"x">>), NoneV}

\* Items of an expense_ids list: the first id, the last, one never issued,
\* and a string int() rejects.
ListItems == {IntV(1), IntV(MaxId), IntV(MaxId + 1), StrV(<<"x">>)}

SeqsUpTo(S, n) == UNION {[1..k -> S] : k \in 0..n}

\* expense_ids values: None, scalars, delimited strings, lists.
ExpenseIdsInputs ==
  {NoneV, IntV(1), StrV(<<>>), StrV(<<",", " ">>),
   StrV(<<"1", ",", " ", "2">>), StrV(<<"1", " ", "x">>),
   StrV(<<"x", ",", "1", ",", "-">>), StrV(<<"-", "1", " ", "1">>)}
  \cup {ListV(l) : l \in SeqsUpTo(ListItems, MaxLen)}

\* add_expense arguments with subcategory and note left at their defaults.
AddInputs == Dates \X Amounts \X Categories \X {Empty} \X {Empty}

\* add_expense arguments with every argument given.
FieldsAddInputs == {D0105, D15} \X Amounts \X {Food, Rent} \X Subcategories \X Notes

NoFields ==
  [date |-> Null(Empty), amount |-> Null(0), category |-> Null(Empty),
   subcategory |-> Null(Empty), note |-> Null(Empty)]

\* (expense_id, fields) of update_expense: every choice of fields on the
\* first and the last id, and an id int() rejects with and without fields.
UpdatesOver(fieldInputs) ==
  ({IntV(1), IntV(MaxId)} \X fieldInputs)
  \cup ({StrV(<<"x">>)} \X {NoFields, [NoFields EXCEPT !.date = Some(D15)]})

\* update_expense on date, amount and category.
UpdateInputs ==
  UpdatesOver([date : {Null(Empty), Some(D15)},
               amount : {Null(0), Some(2)},
               category : {Null(Empty), Some(Rent)},
               subcategory : {Null(Empty)},
               note : {Null(Empty)}])

\* update_expense on any of the five fields.
FieldsUpdateInputs ==
  UpdatesOver([date : {Null(Empty), Some(D15)},
               amount : {Null(0), Some(2)},
               category : {Null(Empty), Some(Rent)},
               subcategory : {Null(Empty), Some(Empty), Some(<<"x">>)},
               note : {Null(Empty), Some(<<"n">>)}])

\* (expense_ids, delete_all) of delete_expenses.
DeleteManyInputs ==
  (ExpenseIdsInputs \X {FALSE})
  \cup ({NoneV, ListV(<<IntV(1)>>), StrV(<<"x">>)} \X {TRUE})

CategoryFilters == {Null(Empty), Some(Empty)} \cup {Some(c) : c \in Categories}

----------------------------------------------------------------------------
(* The tools as steps of one caller: a call runs to its result, the result *)
(* is handed back, and the next call begins.                               *)

NoCall == [pc |-> "idle", ids |-> <<>>, existing |-> {}, res |-> [status |-> "none"]]

Idle == [op |-> "idle"]

Init ==
  /\ store = {}
  /\ seq = 0
  /\ issued = <<>>
  /\ pre = {}
  /\ last = Idle
  /\ calls = [c \in Callers |-> NoCall]

AddFrom(inputs) ==
  /\ last = Idle
  /\ seq < MaxId
  /\ \E in \in inputs :
       LET out == add_expense(store, seq, in[1], in[2], in[3], in[4], in[5])
       IN  /\ store' = out.store
           /\ seq' = out.seq
           /\ issued' = Append(issued, out.res.id)
           /\ pre' = store
           /\ last' = [op |-> "add",
                       args |-> [date |-> in[1], amount |-> in[2], category |-> in[3],
                                 subcategory |-> in[4], note |-> in[5]],
                       res |-> out.res]
  /\ UNCHANGED calls

Add == AddFrom(AddInputs)

List ==
  /\ last = Idle
  /\ \E lo \in Dates, hi \in Dates :
       LET out == list_expenses(store, lo, hi)
       IN  /\ store' = out.store
           /\ pre' = store
           /\ last' = [op |-> "list", args |-> [start_date |-> lo, end_date |-> hi],
                       res |-> out.res]
  /\ UNCHANGED <<seq, issued, calls>>

Delete ==
  /\ last = Idle
  /\ \E e \in IdInputs :
       LET out == delete_expense(store, e)
       IN  /\ store' = out.store
           /\ pre' = store
           /\ last' = [op |-> "delete", args |-> [expense_id |-> e], res |-> out.res]
  /\ UNCHANGED <<seq, issued, calls>>

DeleteMany ==
  /\ last = Idle
  /\ \E in \in DeleteManyInputs :
       LET out == delete_expenses(store, in[1], in[2])
       IN  /\ store' = out.store
           /\ pre' = store
           /\ last' = [op |-> "delete_many",
                       args |-> [expense_ids |-> in[1], delete_all |-> in[2]],
                       res |-> out.res]
  /\ UNCHANGED <<seq, issued, calls>>

UpdateFrom(inputs) ==
  /\ last = Idle
  /\ \E in \in inputs :
       LET out == update_expense(store, in[1], in[2])
       IN  /\ store' = out.store
           /\ pre' = store
           /\ last' = [op |-> "update", args |-> [expense_id |-> in[1], f |-> in[2]],
                       res |-> out.res]
  /\ UNCHANGED <<seq, issued, calls>>

Update == UpdateFrom(UpdateInputs)

Summarize ==
  /\ last = Idle
  /\ \E lo \in Dates, hi \in Dates, c \in CategoryFilters :
       LET out == summarize(store, lo, hi, c)
       IN  /\ store' = out.store
           /\ pre' = store
           /\ last' = [op |-> "summarize",
                       args |-> [start_date |-> lo, end_date |-> hi, category |-> c],
                       res |-> out.res]
  /\ UNCHANGED <<seq, issued, calls>>

\* The result goes back to the caller and the server takes the next request.
Respond ==
  /\ last # Idle
  /\ last' = Idle
  /\ pre' = {}
  /\ UNCHANGED <<store, seq, issued, calls>>

Next == Add \/ List \/ Delete \/ DeleteMany \/ Update \/ Summarize \/ Respond

\* The six tools, rows differing in date, amount and category.
Spec == Init /\ [][Next]_vars

FieldsAdd == AddFrom(FieldsAddInputs)

FieldsUpdate == UpdateFrom(FieldsUpdateInputs)

FieldsNext == FieldsAdd \/ FieldsUpdate \/ Delete \/ Respond

\* add, update and delete, rows differing in all five fields.
FieldsSpec == Init /\ [][FieldsNext]_vars

----------------------------------------------------------------------------
(* Properties of the tools, one call at a time *)

OfUpdate == last.op = "update"
OfDeleteMany == last.op = "delete_many"

\* Every field argument of the last update call is None.
NoFieldSupplied == \A name \in FieldNames : last.args.f[name].null

\* C1: update of an id that is in the store, with at least one field
\* supplied and every supplied field equal to the row's current value,
\* returns {status: no_change, updated: 0} and leaves the store unchanged.
C1_IdenticalUpdateIsNoChange ==
  (/\ OfUpdate
   /\ CanInt(last.args.expense_id)
   /\ ~NoFieldSupplied
   /\ \E r \in pre :
        /\ r.id = ToInt(last.args.expense_id)
        /\ \A name \in FieldNames :
             ~last.args.f[name].null => last.args.f[name].v = r[name])
  => (last.res = [status |-> "no_change", updated |-> 0] /\ store = pre)

\* C2 as stated: update with no field supplied returns the "provide at
\* least one field to update" error and leaves the store unchanged, whatever
\* expense_id is (coercible to an integer or not).
C2_NoFieldsAlwaysNoFieldsError ==
  (OfUpdate /\ NoFieldSupplied)
  => (last.res = Err("provide at least one field to update") /\ store = pre)

\* C2 amended: update with no field supplied leaves the store unchanged and
\* returns the "provide at least one field to update" error when expense_id
\* is coercible to an integer, and the "expense_id must be an integer" error
\* when it is not.
C2_NoFieldsError ==
  (OfUpdate /\ NoFieldSupplied)
  => /\ store = pre
     /\ last.res = IF CanInt(last.args.expense_id)
                   THEN Err("provide at least one field to update")
                   ELSE Err("expense_id must be an integer")

\* An update with no field supplied, aimed at a row that exists.
C2_Witness ==
  /\ OfUpdate
  /\ NoFieldSupplied
  /\ CanInt(last.args.expense_id)
  /\ ToInt(last.args.expense_id) \in Ids(pre)
  /\ last.res.status = "error"

\* C3: the id an add returns differs from every id an earlier add returned,
\* also when rows were deleted or the store emptied in between, and no two
\* stored rows share an id.
C3_IdsNeverReused ==
  /\ \A i, j \in 1..Len(issued) : i # j => issued[i] # issued[j]
  /\ \A r, q \in store : r.id = q.id => r = q

\* An add into a store that was emptied after an earlier add.
C3_Witness ==
  /\ last.op = "add"
  /\ pre = {}
  /\ Len(issued) > 1
  /\ last.res.id = issued[Len(issued)]

\* C4: delete_many (delete_all false) whose expense_ids hold a token int()
\* rejects deletes nothing and returns {status: error, message:
\* "expense_ids must be integers", invalid: the rejected tokens in input order}.
C4_InvalidTokenAborts ==
  (/\ OfDeleteMany
   /\ ~last.args.delete_all
   /\ last.args.expense_ids.t # "none"
   /\ \E i \in DOMAIN RawIds(last.args.expense_ids) :
        ~CanInt(RawIds(last.args.expense_ids)[i]))
  => /\ store = pre
     /\ last.res = [status |-> "error",
                    message |-> "expense_ids must be integers",
                    invalid |-> SelectSeq(RawIds(last.args.expense_ids),
                                          LAMBDA x : ~CanInt(x))]

\* A list naming an existing row beside a token int() rejects.
C4_Witness ==
  /\ OfDeleteMany
  /\ ~last.args.delete_all
  /\ last.args.expense_ids.t = "list"
  /\ \E i, j \in DOMAIN last.args.expense_ids.l :
       /\ CanInt(last.args.expense_ids.l[i])
       /\ ToInt(last.args.expense_ids.l[i]) \in Ids(pre)
       /\ ~CanInt(last.args.expense_ids.l[j])
  /\ last.res.status = "error"

\* The last call is delete_many with delete_all false and a non-empty list of integers.
ByIntegerList ==
  /\ OfDeleteMany
  /\ ~last.args.delete_all
  /\ last.args.expense_ids.t = "list"
  /\ last.args.expense_ids.l # <<>>
  /\ \A i \in DOMAIN last.args.expense_ids.l : last.args.expense_ids.l[i].t = "int"

Requested == {last.args.expense_ids.l[i].n : i \in DOMAIN last.args.expense_ids.l}

\* C5: delete_many of a non-empty list of integer ids removes exactly the
\* rows whose id is listed; deleted is the number of distinct listed ids that
\* existed; missing is the ascending, duplicate-free list of the listed ids
\* that did not exist; status is not_found exactly when deleted is 0.
C5_DeleteManyByIds ==
  ByIntegerList
  => /\ store = {r \in pre : r.id \notin Requested}
     /\ last.res.deleted = Cardinality(Requested \cap Ids(pre))
     /\ \A i \in 1..Len(last.res.missing) - 1 : last.res.missing[i] < last.res.missing[i + 1]
     /\ Range(last.res.missing) = Requested \ Ids(pre)
     /\ last.res.status = IF last.res.deleted = 0 THEN "not_found" ELSE "ok"

\* A list naming one existing and one absent id: ok, with the absent id missing.
C5_Witness ==
  /\ ByIntegerList
  /\ last.res.status = "ok"
  /\ last.res.missing # <<>>
  /\ store # {}

\* C6: list returns exactly the rows whose date d has start_date <= d <=
\* end_date (text comparison, both ends included), each once, in strictly
\* ascending id order whatever their dates, and does not change the store.
C6_ListRange ==
  last.op = "list"
  => /\ Range(last.res) = {r \in pre : /\ TextLeq(last.args.start_date, r.date)
                                      /\ TextLeq(r.date, last.args.end_date)}
     /\ \A i \in 1..Len(last.res) - 1 : last.res[i].id < last.res[i + 1].id
     /\ store = pre

\* Two rows listed in id order although the later row has the earlier date,
\* the first of them dated exactly end_date.
C6_Witness ==
  /\ last.op = "list"
  /\ Len(last.res) = 2
  /\ TextLess(last.res[2].date, last.res[1].date)
  /\ last.res[1].date = last.args.end_date

\* res is the summary of the rows sel: one entry per category of sel, in
\* ascending category order, each with the sum of its rows' amounts.
IsSummaryOf(res, sel) ==
  /\ Range([i \in DOMAIN res |-> res[i].category]) = {r.category : r \in sel}
  /\ \A i \in 1..Len(res) - 1 : TextLess(res[i].category, res[i + 1].category)
  /\ \A i \in DOMAIN res :
       res[i].total_amount = SumAmount({r \in sel : r.category = res[i].category})

\* C7 as stated: summarize returns one entry per category that has a row
\* dated within [start_date, end_date] and, whenever the category argument is
\* not None, of exactly that category; total_amount is the sum over those
\* rows; entries ascend by category.
C7_FilterWheneverNotNone ==
  last.op = "summarize"
  => IsSummaryOf(last.res,
       {r \in pre : /\ TextLeq(last.args.start_date, r.date)
                    /\ TextLeq(r.date, last.args.end_date)
                    /\ ~last.args.category.null => r.category = last.args.category.v})

\* C7 amended: the category filter applies whenever the category argument
\* is neither None nor the empty string; with None or '' every category in
\* the date range is summarized.
C7_FilterWhenNonEmpty ==
  last.op = "summarize"
  => IsSummaryOf(last.res,
       {r \in pre : /\ TextLeq(last.args.start_date, r.date)
                    /\ TextLeq(r.date, last.args.end_date)
                    /\ (~last.args.category.null /\ last.args.category.v # <<>>)
                         => r.category = last.args.category.v})

\* A summary filtered by a category, with a row of another category in range left out.
C7_Witness ==
  /\ last.op = "summarize"
  /\ ~last.args.category.null
  /\ last.args.category.v # <<>>
  /\ Len(last.res) = 1
  /\ \E r \in pre :
       /\ r.category # last.args.category.v
       /\ TextLeq(last.args.start_date, r.date)
       /\ TextLeq(r.date, last.args.end_date)

\* C8: a successful update sets each supplied field of the row to the
\* supplied value and leaves alone the row's other fields, its id, every
\* other row and the number of rows.
C8_UpdateFrame ==
  (OfUpdate /\ last.res.status = "ok")
  => /\ Cardinality(store) = Cardinality(pre)
     /\ \E r \in pre, q \in store :
          /\ r.id = ToInt(last.args.expense_id)
          /\ q.id = r.id
          /\ \A name \in FieldNames :
               q[name] = IF last.args.f[name].null THEN r[name] ELSE last.args.f[name].v
          /\ store \ {q} = pre \ {r}

\* A successful update that changes a field, leaves another as it was, beside a second row.
C8_Witness ==
  /\ OfUpdate
  /\ last.res.status = "ok"
  /\ store # pre
  /\ Cardinality(store) = 2
  /\ \E name \in FieldNames : last.args.f[name].null

\* C9: delete of an id not in the store returns {status: not_found,
\* deleted: 0} and leaves the store unchanged; delete of an id in the store
\* returns {status: ok, deleted: 1} and removes exactly that row.
C9_Delete ==
  (last.op = "delete" /\ CanInt(last.args.expense_id))
  => IF ToInt(last.args.expense_id) \in Ids(pre)
     THEN /\ last.res = [status |-> "ok", deleted |-> 1]
          /\ store = {r \in pre : r.id # ToInt(last.args.expense_id)}
          /\ Cardinality(store) = Cardinality(pre) - 1
     ELSE /\ last.res = [status |-> "not_found", deleted |-> 0]
          /\ store = pre

\* A delete of an id that an add returned and an earlier delete removed.
C9_Witness ==
  /\ last.op = "delete"
  /\ CanInt(last.args.expense_id)
  /\ ToInt(last.args.expense_id) \in Range(issued)
  /\ last.res.status = "not_found"

----------------------------------------------------------------------------
(* Several callers at once.  Each caller has its own connection.  A single  *)
(* statement is atomic in SQLite; the SELECT of delete_expenses runs         *)
(* outside any transaction (sqlite3 opens one only before INSERT, UPDATE     *)
(* and DELETE), so other callers' statements can run between it and the      *)
(* DELETE.                                                                   *)

\* expense_ids of the concurrent delete_expenses calls.
ConcExpenseIds ==
  {StrV(<<"1", ",", " ", "2">>)}
  \cup {ListV(l) : l \in SeqsUpTo({IntV(1), IntV(MaxId)}, MaxLen)}

\* Another caller's add_expense: one INSERT.
ConcAdd ==
  /\ seq < MaxId
  /\ \E d \in {D0105, D15} :
       LET out == add_expense(store, seq, d, 2, Food, Empty, Empty)
       IN  /\ store' = out.store
           /\ seq' = out.seq
           /\ issued' = Append(issued, out.res.id)
  /\ UNCHANGED <<pre, last, calls>>

\* Another caller's delete_expense: one DELETE.
ConcDelete ==
  /\ \E i \in 1..MaxId : store' = delete_expense(store, IntV(i)).store
  /\ UNCHANGED <<seq, issued, pre, last, calls>>

\* delete_expenses up to and including its SELECT: the arguments pass the
\* checks and `existing` is read.
DMSelect(c) ==
  /\ calls[c].pc = "idle"
  /\ \E e \in ConcExpenseIds :
       LET raw == RawIds(e)
           ids == CoercedIds(raw)
       IN  /\ InvalidItems(raw) = <<>>
           /\ ids # <<>>
           /\ calls' = [calls EXCEPT ![c] =
                          [pc |-> "selected", ids |-> ids,
                           existing |-> SelectIn(store, ids),
                           res |-> [status |-> "none"]]]
  /\ UNCHANGED <<store, seq, issued, pre, last>>

\* delete_expenses from its DELETE to its result.
DMDelete(c) ==
  /\ calls[c].pc = "selected"
  /\ LET gone == DeleteIn(store, calls[c].ids)
     IN  /\ store' = store \ gone
         /\ calls' = [calls EXCEPT ![c].pc = "done",
                                   ![c].res = DeleteManyResult(calls[c].ids,
                                                               calls[c].existing,
                                                               Cardinality(gone))]
  /\ UNCHANGED <<seq, issued, pre, last>>

\* The caller takes the result; it may call again.
DMReturn(c) ==
  /\ calls[c].pc = "done"
  /\ calls' = [calls EXCEPT ![c] = NoCall]
  /\ UNCHANGED <<store, seq, issued, pre, last>>

ConcNext ==
  \/ ConcAdd
  \/ ConcDelete
  \/ \E c \in Callers : DMSelect(c)
  \/ \E c \in Callers : DMDelete(c)
  \/ \E c \in Callers : DMReturn(c)

ConcSpec == Init /\ [][ConcNext]_vars

\* C10: under every interleaving with other callers' operations, a
\* delete_many call accounts for every distinct requested id: it is counted
\* in deleted or listed in missing, deleted + |missing| = the number of
\* distinct requested ids.
C10_DeleteManyAtomic ==
  \A c \in Callers :
    calls[c].pc = "done"
    => calls[c].res.deleted + Len(calls[c].res.missing)
         = Cardinality(Range(calls[c].ids))

====
